---- MODULE Spec2Model ----
(***************************************************************************)
(* Transaction pipeline of one validator node: pre-check, object lock,     *)
(* execution, effects, checkpoint sequencing (crates/validator), together  *)
(* with the lock table (crates/locking), the pre-check rules               *)
(* (crates/precheck), the execution engine (crates/vm) and the stores      *)
(* (crates/storage) it is built from.                                      *)
(***************************************************************************)
EXTENDS Integers, Sequences, FiniteSets, TLC

(* ------------------------------ bounds -------------------------------- *)
\* concurrent handle_transaction invocations on one ValidatorNode
NumTasks == 2
\* longest recipient string, in characters
MaxLen == 2
\* most arguments of a Call
MaxArgs == 1
\* direct LockManager calls made in one run of the lock harness
MaxCalls == 4
\* highest object version used as a lock key by the lock harness
MaxVersion == 2

Tasks == 1..NumTasks

\* Option: None and Some(x)
None == <<>>
Some(x) == <<x>>

(* ------------------------------ maps ---------------------------------- *)
\* HashMap::insert
MapPut(m, k, v) == [x \in (DOMAIN m) \cup {k} |-> IF x = k THEN v ELSE m[x]]

\* HashMap::remove
MapRemove(m, k) == [x \in (DOMAIN m) \ {k} |-> m[x]]

\* HashMap::get(..).cloned()
MapGet(m, k) == IF k \in DOMAIN m THEN Some(m[k]) ELSE None

EmptyMap == [x \in {} |-> None]

(* ------------------------------ objects ------------------------------- *)
\* SuiObject::new : version starts at 1
NewObject(id, owner, data) ==
    [id |-> id, version |-> 1, owner |-> owner, data |-> data]

\* lock_key made of the identity alone
lock_key_without_version(object) == <<object.id>>

\* SuiObject::lock_key : format!("{}::v{}", id, version)
lock_key(object) == <<object.id, object.version>>

OwnerShared == <<"Shared">>
OwnerAddress(a) == <<"Address", a>>
Coin(balance) == [type |-> "Coin", balance |-> balance]

(* ------------------------------ LockManager --------------------------- *)
Shared == "Shared"
Exclusive == "Exclusive"
LockModes == {Shared, Exclusive}

\* LockState::default()
DefaultLockState == [shared_count |-> 0, exclusive |-> FALSE]

\* acquire with a failed exclusive acquisition dropping the entry it found
acquire_failure_clears(map, object, mode) ==
    LET key == lock_key(object)
        m1 == IF key \in DOMAIN map THEN map ELSE MapPut(map, key, DefaultLockState)
        state == m1[key]
    IN  IF mode = Shared
        THEN IF state.exclusive
             THEN [ok |-> FALSE, map |-> m1]
             ELSE [ok |-> TRUE,
                   map |-> MapPut(m1, key, [state EXCEPT !.shared_count = @ + 1])]
        ELSE IF state.exclusive \/ state.shared_count > 0
             THEN [ok |-> FALSE, map |-> MapRemove(m1, key)]
             ELSE [ok |-> TRUE,
                   map |-> MapPut(m1, key, [state EXCEPT !.exclusive = TRUE])]

\* acquire with the exclusive mode not looking at the shared holders
acquire_exclusive_ignores_shared(map, object, mode) ==
    LET key == lock_key(object)
        m1 == IF key \in DOMAIN map THEN map ELSE MapPut(map, key, DefaultLockState)
        state == m1[key]
    IN  IF mode = Shared
        THEN IF state.exclusive
             THEN [ok |-> FALSE, map |-> m1]
             ELSE [ok |-> TRUE,
                   map |-> MapPut(m1, key, [state EXCEPT !.shared_count = @ + 1])]
        ELSE IF state.exclusive
             THEN [ok |-> FALSE, map |-> m1]
             ELSE [ok |-> TRUE,
                   map |-> MapPut(m1, key, [state EXCEPT !.exclusive = TRUE])]

\* acquire with the shared mode not looking at the exclusive flag
acquire_shared_unchecked(map, object, mode) ==
    LET key == lock_key(object)
        m1 == IF key \in DOMAIN map THEN map ELSE MapPut(map, key, DefaultLockState)
        state == m1[key]
    IN  IF mode = Shared
        THEN [ok |-> TRUE,
              map |-> MapPut(m1, key, [state EXCEPT !.shared_count = @ + 1])]
        ELSE IF state.exclusive \/ state.shared_count > 0
             THEN [ok |-> FALSE, map |-> m1]
             ELSE [ok |-> TRUE,
                   map |-> MapPut(m1, key, [state EXCEPT !.exclusive = TRUE])]

\* LockManager::acquire, the whole body under the table's mutex:
\* the returned boolean and the table afterwards
acquire(map, object, mode) ==
    LET key == lock_key(object)
        \* map.entry(key).or_default()
        m1 == IF key \in DOMAIN map THEN map ELSE MapPut(map, key, DefaultLockState)
        state == m1[key]
    IN  IF mode = Shared
        THEN IF state.exclusive
             THEN [ok |-> FALSE, map |-> m1]
             ELSE [ok |-> TRUE,
                   map |-> MapPut(m1, key, [state EXCEPT !.shared_count = @ + 1])]
        ELSE IF state.exclusive \/ state.shared_count > 0
             THEN [ok |-> FALSE, map |-> m1]
             ELSE [ok |-> TRUE,
                   map |-> MapPut(m1, key, [state EXCEPT !.exclusive = TRUE])]

\* usize::saturating_sub(1)
saturating_sub1(n) == IF n = 0 THEN 0 ELSE n - 1

\* release leaving an entry without holders in the table
release_keeps_entry(map, object, mode) ==
    LET key == lock_key(object)
    IN  IF key \in DOMAIN map
        THEN LET state == IF mode = Shared
                          THEN [map[key] EXCEPT !.shared_count = saturating_sub1(@)]
                          ELSE [map[key] EXCEPT !.exclusive = FALSE]
             IN  MapPut(map, key, state)
        ELSE map

\* release dropping a shared holder and the exclusive flag whatever the mode
release_both_modes(map, object, mode) ==
    LET key == lock_key(object)
    IN  IF key \in DOMAIN map
        THEN LET state == [map[key] EXCEPT !.shared_count = saturating_sub1(@),
                                           !.exclusive = FALSE]
             IN  IF state.shared_count = 0 /\ ~state.exclusive
                 THEN MapRemove(map, key)
                 ELSE MapPut(map, key, state)
        ELSE map

\* release with the exclusive mode leaving the flag set
release_keeps_exclusive(map, object, mode) ==
    LET key == lock_key(object)
    IN  IF key \in DOMAIN map
        THEN LET state == IF mode = Shared
                          THEN [map[key] EXCEPT !.shared_count = saturating_sub1(@)]
                          ELSE map[key]
             IN  IF state.shared_count = 0 /\ ~state.exclusive
                 THEN MapRemove(map, key)
                 ELSE MapPut(map, key, state)
        ELSE map

\* LockManager::release, the whole body under the table's mutex
release(map, object, mode) ==
    LET key == lock_key(object)
    IN  IF key \in DOMAIN map
        THEN LET state == IF mode = Shared
                          THEN [map[key] EXCEPT !.shared_count = saturating_sub1(@)]
                          ELSE [map[key] EXCEPT !.exclusive = FALSE]
             IN  IF state.shared_count = 0 /\ ~state.exclusive
                 THEN MapRemove(map, key)
                 ELSE MapPut(map, key, state)
        ELSE map


(* ------------------------------ strings ------------------------------- *)
\* characters a recipient is written with; " " and "\t" are whitespace
Chars == {" ", "\t", "b"}

\* char::is_whitespace, on Chars
is_whitespace(c) == c \in {" ", "\t"}

\* all strings over Chars of at most n characters
RECURSIVE StringsUpTo(_)
StringsUpTo(n) ==
    IF n = 0 THEN {<<>>}
    ELSE LET shorter == StringsUpTo(n - 1)
         IN  shorter \cup {Append(s, c) : s \in shorter, c \in Chars}

\* str::trim_start
RECURSIVE trim_start(_)
trim_start(s) ==
    IF s = <<>> THEN s
    ELSE IF is_whitespace(Head(s)) THEN trim_start(Tail(s)) ELSE s

\* str::trim_end
RECURSIVE trim_end(_)
trim_end(s) ==
    IF s = <<>> THEN s
    ELSE IF is_whitespace(s[Len(s)]) THEN trim_end(SubSeq(s, 1, Len(s) - 1)) ELSE s

\* str::trim
trim(s) == trim_end(trim_start(s))

\* str::is_empty
is_empty(s) == Len(s) = 0

\* a non-empty string literal, as a sequence
Str(x) == <<x>>

(* ------------------------------ requests ------------------------------ *)
\* the object seeded into the store and one that is not in it
ObjectIds == {"coin-alice-1", "coin-123"}
Recipients == StringsUpTo(MaxLen)
Modules == {<<>>, Str("coin"), Str("nft")}
Functions == {<<>>, Str("mint"), Str("transfer")}
ArgValues == {"7"}
GasBudgets == {0, 1000}
Digests == {"tx-1", "tx-2"}

RECURSIVE ArgLists(_)
ArgLists(n) ==
    IF n = 0 THEN {<<>>}
    ELSE LET shorter == ArgLists(n - 1)
         IN  shorter \cup {Append(s, v) : s \in shorter, v \in ArgValues}

\* TransactionKind::Transfer inside an ExecutionRequest
TransferRequests ==
    [kind : {"Transfer"}, object : ObjectIds, recipient : Recipients,
     gas_budget : GasBudgets, digest : Digests]

\* TransactionKind::Call inside an ExecutionRequest
CallRequests ==
    [kind : {"Call"}, package : {"0x2"}, module : Modules, function : Functions,
     arguments : ArgLists(MaxArgs), gas_budget : GasBudgets, digest : Digests]

Requests == TransferRequests \cup CallRequests

\* the requests concurrent invocations are given: the transfer of the seeded
\* object and of an absent one, a mint, a call of an unknown function, and one
\* request for each pre-check error
PipelineRequests ==
    {r \in TransferRequests :
        /\ r.gas_budget > 0 /\ r.recipient = Str("b")}
    \cup {r \in CallRequests :
        /\ r.gas_budget > 0 /\ r.arguments = <<>>
        /\ <<r.module, r.function>> \in {<<Str("coin"), Str("mint")>>, <<Str("nft"), Str("transfer")>>}}
    \cup {r \in TransferRequests :
        /\ r.object = "coin-alice-1" /\ r.digest = "tx-1"
        /\ \/ r.gas_budget = 0 /\ r.recipient = Str("b")
           \/ r.gas_budget > 0 /\ r.recipient = Str(" ")}
    \cup {r \in CallRequests :
        /\ r.gas_budget > 0 /\ r.arguments = <<>> /\ r.digest = "tx-1"
        /\ r.module = <<>> /\ r.function = Str("mint")}

(* ------------------------------ pre-check ----------------------------- *)
InvalidGasBudget == "InvalidGasBudget"
MissingRecipient == "MissingRecipient"
InvalidCall == "InvalidCall"

\* run without the gas rule
run_no_gas_rule(request) ==
    IF request.kind = "Transfer"
    THEN IF is_empty(trim(request.recipient))
         THEN [ok |-> FALSE, err |-> MissingRecipient]
         ELSE [ok |-> TRUE, is_move_call |-> FALSE, requires_shared_lock |-> FALSE]
    ELSE IF is_empty(request.module) \/ is_empty(request.function)
         THEN [ok |-> FALSE, err |-> InvalidCall]
         ELSE [ok |-> TRUE, is_move_call |-> TRUE, requires_shared_lock |-> TRUE]

\* run with the recipient tested without trimming it
run_no_trim(request) ==
    IF request.gas_budget = 0
    THEN [ok |-> FALSE, err |-> InvalidGasBudget]
    ELSE IF request.kind = "Transfer"
         THEN IF is_empty(request.recipient)
              THEN [ok |-> FALSE, err |-> MissingRecipient]
              ELSE [ok |-> TRUE, is_move_call |-> FALSE, requires_shared_lock |-> FALSE]
         ELSE IF is_empty(request.module) \/ is_empty(request.function)
              THEN [ok |-> FALSE, err |-> InvalidCall]
              ELSE [ok |-> TRUE, is_move_call |-> TRUE, requires_shared_lock |-> TRUE]

\* run rejecting a call only when module and function are both empty
run_call_both_empty(request) ==
    IF request.gas_budget = 0
    THEN [ok |-> FALSE, err |-> InvalidGasBudget]
    ELSE IF request.kind = "Transfer"
         THEN IF is_empty(trim(request.recipient))
              THEN [ok |-> FALSE, err |-> MissingRecipient]
              ELSE [ok |-> TRUE, is_move_call |-> FALSE, requires_shared_lock |-> FALSE]
         ELSE IF is_empty(request.module) /\ is_empty(request.function)
              THEN [ok |-> FALSE, err |-> InvalidCall]
              ELSE [ok |-> TRUE, is_move_call |-> TRUE, requires_shared_lock |-> TRUE]

\* run with the gas rule applied last
run_gas_rule_last(request) ==
    IF request.kind = "Transfer" /\ is_empty(trim(request.recipient))
    THEN [ok |-> FALSE, err |-> MissingRecipient]
    ELSE IF request.kind = "Call" /\ (is_empty(request.module) \/ is_empty(request.function))
    THEN [ok |-> FALSE, err |-> InvalidCall]
    ELSE IF request.gas_budget = 0
    THEN [ok |-> FALSE, err |-> InvalidGasBudget]
    ELSE IF request.kind = "Transfer"
         THEN [ok |-> TRUE, is_move_call |-> FALSE, requires_shared_lock |-> FALSE]
         ELSE [ok |-> TRUE, is_move_call |-> TRUE, requires_shared_lock |-> TRUE]

\* run asking for the lock for a Transfer too
run_transfer_requires_lock(request) ==
    IF request.gas_budget = 0
    THEN [ok |-> FALSE, err |-> InvalidGasBudget]
    ELSE IF request.kind = "Transfer"
         THEN IF is_empty(trim(request.recipient))
              THEN [ok |-> FALSE, err |-> MissingRecipient]
              ELSE [ok |-> TRUE, is_move_call |-> FALSE, requires_shared_lock |-> TRUE]
         ELSE IF is_empty(request.module) \/ is_empty(request.function)
              THEN [ok |-> FALSE, err |-> InvalidCall]
              ELSE [ok |-> TRUE, is_move_call |-> TRUE, requires_shared_lock |-> TRUE]

\* PreCheckPipeline::run
run(request) ==
    IF request.gas_budget = 0
    THEN [ok |-> FALSE, err |-> InvalidGasBudget]
    ELSE IF request.kind = "Transfer"
         THEN IF is_empty(trim(request.recipient))
              THEN [ok |-> FALSE, err |-> MissingRecipient]
              ELSE [ok |-> TRUE, is_move_call |-> FALSE, requires_shared_lock |-> FALSE]
         ELSE IF is_empty(request.module) \/ is_empty(request.function)
              THEN [ok |-> FALSE, err |-> InvalidCall]
              ELSE [ok |-> TRUE, is_move_call |-> TRUE, requires_shared_lock |-> TRUE]


(* ------------------------------ execution engine ---------------------- *)
\* ObjectID::random() draws from these
RandomIds == {"obj-r1"}

ExecutionResult(gas, touched, logs) ==
    [gas_used |-> gas, touched_objects |-> touched, logs |-> logs]

\* execute_function with a mint that creates no object
execute_function_mint_creates_nothing(module, function, rid) ==
    IF module = Str("coin") /\ function = Str("transfer")
    THEN ExecutionResult(300, <<>>, << <<"Coin transfer executed">> >>)
    ELSE IF module = Str("coin") /\ function = Str("mint")
    THEN ExecutionResult(200, <<>>, << <<"Coin minted">> >>)
    ELSE ExecutionResult(150, <<>>, << <<"Executed ">> \o module \o <<"::">> \o function >>)

\* execute_function with every pair but coin::transfer handled as a mint
execute_function_default_mints(module, function, rid) ==
    IF module = Str("coin") /\ function = Str("transfer")
    THEN ExecutionResult(300, <<>>, << <<"Coin transfer executed">> >>)
    ELSE ExecutionResult(200,
            << NewObject(rid, OwnerAddress(Str("mint-address")), Coin(1000)) >>,
            << <<"Executed ">> \o module \o <<"::">> \o function >>)

\* MoveVMExecutor::execute_function; rid is the ObjectID::random() drawn for a mint
execute_function(module, function, rid) ==
    IF module = Str("coin") /\ function = Str("transfer")
    THEN ExecutionResult(300, <<>>, << <<"Coin transfer executed">> >>)
    ELSE IF module = Str("coin") /\ function = Str("mint")
    THEN ExecutionResult(200,
            << NewObject(rid, OwnerAddress(Str("mint-address")), Coin(1000)) >>,
            << <<"Coin minted">> >>)
    ELSE ExecutionResult(150, <<>>, << <<"Executed ">> \o module \o <<"::">> \o function >>)

LoadConst(v) == [op |-> "LoadConst", value |-> v]
CallFunction(m, f) == [op |-> "CallFunction", module |-> m, function |-> f]
Return == [op |-> "Return"]

\* MoveVMExecutor::parse_move_call
parse_move_call(module, function, args) ==
    [n \in 1..Len(args) |-> LoadConst(args[n])]
        \o << CallFunction(module, function), Return >>

\* the loop of MoveVMExecutor::interpret_bytecode from instruction n on;
\* parse_move_call never emits MoveInstruction::Transfer
RECURSIVE interpret_from(_, _, _, _)
interpret_from(instructions, n, acc, rid) ==
    IF n > Len(instructions) THEN acc
    ELSE LET instruction == instructions[n]
             gas == acc.gas_used + 50
         IN  IF instruction.op = "LoadConst"
             THEN interpret_from(instructions, n + 1,
                    ExecutionResult(gas, acc.touched_objects,
                        Append(acc.logs, <<"Loaded constant: ", instruction.value>>)),
                    rid)
             ELSE IF instruction.op = "CallFunction"
             THEN LET result == execute_function(instruction.module, instruction.function, rid)
                  IN  interpret_from(instructions, n + 1,
                        ExecutionResult(gas + result.gas_used,
                            acc.touched_objects \o result.touched_objects,
                            acc.logs \o result.logs),
                        rid)
             ELSE \* Return: log and break
                  ExecutionResult(gas, acc.touched_objects,
                        Append(acc.logs, <<"Function returned">>))

\* MoveVMExecutor::interpret_bytecode
interpret_bytecode(bytecode, rid) ==
    interpret_from(bytecode, 1, ExecutionResult(0, <<>>, <<>>), rid)

\* [String]::join("; ")
RECURSIVE join(_)
join(logs) ==
    IF logs = <<>> THEN <<>>
    ELSE IF Len(logs) = 1 THEN logs[1]
    ELSE logs[1] \o <<"; ">> \o join(Tail(logs))

\* execute_move_call reporting the interpreter's gas as it is
execute_move_call_no_surcharge(module, function, arguments, rid) ==
    LET bytecode == parse_move_call(module, function, arguments)
        result == interpret_bytecode(bytecode, rid)
    IN  ExecutionResult(result.gas_used,
            result.touched_objects,
            << <<"Move call: ">> \o module \o <<"::">> \o function,
               <<"Arguments: ">> \o arguments,
               join(result.logs) >>)

\* MoveVMExecutor::execute_move_call
execute_move_call(module, function, arguments, rid) ==
    LET bytecode == parse_move_call(module, function, arguments)
        result == interpret_bytecode(bytecode, rid)
    IN  ExecutionResult(result.gas_used + 200,
            result.touched_objects,
            << <<"Move call: ">> \o module \o <<"::">> \o function,
               <<"Arguments: ">> \o arguments,
               join(result.logs) >>)

\* transferred without the version increment
transferred_keeps_version(obj, recipient) ==
    [obj EXCEPT !.owner = OwnerAddress(recipient)]

\* execute_transfer, lines 69-71: the object read from the store, reassigned
transferred(obj, recipient) ==
    [obj EXCEPT !.owner = OwnerAddress(recipient), !.version = @ + 1]

\* execute_transfer, lines 82-86: the object synthesized by a VM built without
\* an object store
stand_in(object, recipient) ==
    NewObject(<<object, "-transferred">>, OwnerAddress(recipient), Coin(1))

\* the object_store field of the validator's VM: ValidatorNode::new builds it
\* with MoveVMExecutor::with_object_store
vm_object_store == Some("object_store")

TransferExecutedLog(object, recipient) ==
    <<"Transfer executed: ", object, " -> ">> \o recipient

TransferFailedLog == <<"Transfer failed: ", "store error">>

(* ------------------------------ effects ------------------------------- *)
\* build_effects listing an object that existed before under mutated
build_effects_records_mutated(digest, exec_result) ==
    [digest |-> digest,
     created |-> SelectSeq(exec_result.touched_objects, LAMBDA o : o.version = 1),
     mutated |-> SelectSeq(exec_result.touched_objects, LAMBDA o : o.version > 1),
     events |-> exec_result.logs]

\* EffectsBuilder::new(digest), record_created for each touched object in order,
\* record_event for each log in order, build
build_effects(digest, exec_result) ==
    [digest |-> digest,
     created |-> exec_result.touched_objects,
     mutated |-> <<>>,
     events |-> exec_result.logs]

\* effects_to_json leaving the events out
effects_to_json_without_events(e) ==
    << <<"digest", e.digest>>, <<"created", e.created>>,
       <<"mutated", e.mutated>>, <<"events", <<>> >> >>

\* serde_json::to_string(&effects): the fields in declaration order
effects_to_json(e) ==
    << <<"digest", e.digest>>, <<"created", e.created>>,
       <<"mutated", e.mutated>>, <<"events", e.events>> >>

\* the value of member name of a serialized struct
json_field(json, name) ==
    LET n == CHOOSE n \in 1..Len(json) : json[n][1] = name
    IN  json[n][2]

\* InMemoryEffectsStore::get_effects on a store holding map
get_effects(map, digest) == MapGet(map, digest)

\* CheckpointSummary covering no transaction
CheckpointSummary_counts_nothing(seq, digest) ==
    [sequence_number |-> seq, transaction_count |-> 0, root_digest |-> digest]

\* lines 113-117: the summary of the single transaction
CheckpointSummary(seq, digest) ==
    [sequence_number |-> seq, transaction_count |-> 1, root_digest |-> digest]

\* serde_json::to_string(&checkpoint)
checkpoint_to_json(c) ==
    << <<"sequence_number", c.sequence_number>>,
       <<"transaction_count", c.transaction_count>>,
       <<"root_digest", c.root_digest>> >>


(* ------------------------------ state --------------------------------- *)
VARIABLES
    pc,            \* position of each handle_transaction invocation
    req,           \* its ExecutionRequest
    report,        \* its PreCheckReport
    vm_obj,        \* execute_transfer: the object between get_object and put_object
    exec_result,   \* its ExecutionResult
    put_idx,       \* touched objects already written by the loop of line 90
    effects,       \* the TransactionEffects it built
    current_seq,   \* the sequence number it was given
    result,        \* what it returned: "Ok" or the error
    faults,        \* the store calls it made that returned Err
    inner,         \* LockManager.inner : lock key -> LockState
    objects,       \* object store : id -> SuiObject
    effects_store, \* effects store : digest -> effects_json
    checkpoints,   \* checkpoint store : sequence -> checkpoint_json
    latest,        \* checkpoint store : latest sequence
    sequence,      \* ValidatorNode.sequence
    seq_mutex,     \* holder of the mutex around sequence
    summaries,     \* CheckpointAggregator.summaries
    cp_mutex,      \* holder of the mutex around the aggregator
    trace          \* direct LockManager calls made so far, with what they returned

locals == <<pc, req, report, vm_obj, exec_result, put_idx, effects, current_seq, result, faults>>
stores == <<objects, effects_store, checkpoints, latest>>
sequencing == <<sequence, seq_mutex, summaries, cp_mutex>>
vars == <<locals, inner, stores, sequencing, trace>>

\* the object the complete example seeds the store with
SeededObject == NewObject("coin-alice-1", OwnerAddress(Str("alice")), Coin(1000))

\* handle_transaction, lines 74-78
simulated_object == NewObject("object-to-lock", OwnerShared, Coin(0))

\* a store call returns Ok (TRUE) or Err (FALSE)
StoreOutcomes == BOOLEAN

\* handle_transaction has not returned
NoResult == "pending"

LockContention == "unable to acquire lock for shared object"
ObjectStoreError == "ObjectStoreError"
EffectsStoreError == "EffectsStoreError"
CheckpointStoreError == "CheckpointStoreError"

\* ValidatorNode::new over fresh stores, the object store seeded
Init ==
    /\ pc = [i \in Tasks |-> "idle"]
    /\ req = [i \in Tasks |-> None]
    /\ report = [i \in Tasks |-> None]
    /\ vm_obj = [i \in Tasks |-> None]
    /\ exec_result = [i \in Tasks |-> None]
    /\ put_idx = [i \in Tasks |-> 0]
    /\ effects = [i \in Tasks |-> None]
    /\ current_seq = [i \in Tasks |-> 0]
    /\ result = [i \in Tasks |-> NoResult]
    /\ faults = [i \in Tasks |-> {}]
    /\ inner = EmptyMap
    /\ objects = MapPut(EmptyMap, SeededObject.id, SeededObject)
    /\ effects_store = EmptyMap
    /\ checkpoints = EmptyMap
    /\ latest = None
    /\ sequence = 0
    /\ seq_mutex = None
    /\ summaries = <<>>
    /\ cp_mutex = None
    /\ trace = <<>>

\* the store calls of an invocation, as recorded in faults
VmGet == "vm.get_object"
VmPut == "vm.put_object"
StorePut == "put_object"
StoreSaveEffects == "save_effects"
StoreSaveCheckpoint == "save_checkpoint"

\* the call to the enclave collaborator, recorded in faults like a store call
EnclaveSend == "send_transaction_sync"

\* NautilusClient::send_transaction_sync returns a Result: Ok (TRUE) or Err
EnclaveOutcomes == BOOLEAN

\* invocation i made store call c, which returned Ok (ok) or Err
StoreCall(i, c, ok) ==
    faults' = IF ok THEN faults ELSE [faults EXCEPT ![i] = @ \cup {c}]

\* return Err(e) / the ? operator
ReturnErr(i, e) ==
    /\ result' = [result EXCEPT ![i] = e]
    /\ pc' = [pc EXCEPT ![i] = "done"]

Goto(i, l) ==
    /\ pc' = [pc EXCEPT ![i] = l]
    /\ result' = result

(* ------------------------------ handle_transaction -------------------- *)
\* a caller invokes handle_transaction(request), invocations numbered in the
\* order they are made; lines 69-72: the pre-check, and of line 80 the test
\* of report.requires_shared_lock
Receive(i, r) ==
    /\ pc[i] = "idle"
    /\ \A j \in Tasks : j < i => pc[j] # "idle"
    /\ req' = [req EXCEPT ![i] = r]
    /\ LET rep == run(r)
       IN  IF rep.ok
           THEN /\ report' = [report EXCEPT ![i] = rep]
                /\ Goto(i, IF rep.requires_shared_lock THEN "lock" ELSE "execute")
           ELSE /\ report' = report
                /\ ReturnErr(i, rep.err)
    /\ UNCHANGED <<faults, vm_obj, exec_result, put_idx, effects, current_seq,
                   inner, stores, sequencing, trace>>

\* AcquireLock going on to execute whatever acquire returned
AcquireLock_ignores_failure(i) ==
    /\ pc[i] = "lock"
    /\ LET a == acquire(inner, simulated_object, Exclusive)
       IN  /\ inner' = a.map
           /\ Goto(i, "execute")
    /\ UNCHANGED <<faults, req, report, vm_obj, exec_result, put_idx, effects, current_seq,
                   stores, sequencing, trace>>

\* lines 74-86: lock_manager.acquire(&simulated_object, LockMode::Exclusive)
AcquireLock(i) ==
    /\ pc[i] = "lock"
    /\ LET a == acquire(inner, simulated_object, Exclusive)
       IN  /\ inner' = a.map
           /\ IF a.ok THEN Goto(i, "execute") ELSE ReturnErr(i, LockContention)
    /\ UNCHANGED <<faults, req, report, vm_obj, exec_result, put_idx, effects, current_seq,
                   stores, sequencing, trace>>

\* execute -> execute_transfer, line 68: store.get_object(..).await
VmGetObject(i, ok) ==
    /\ pc[i] = "execute"
    /\ req[i].kind = "Transfer"
    /\ IF vm_object_store = None
       THEN \* line 67, else branch: no store to read
            /\ vm_obj' = vm_obj
            /\ exec_result' = [exec_result EXCEPT ![i] =
                  ExecutionResult(100 + 400,
                      << stand_in(req[i].object, req[i].recipient) >>,
                      << TransferExecutedLog(req[i].object, req[i].recipient) >>)]
            /\ Goto(i, "put_touched")
            /\ faults' = faults
       ELSE LET got == IF ok THEN MapGet(objects, req[i].object) ELSE None
            IN  /\ IF got # None
                   THEN /\ vm_obj' = [vm_obj EXCEPT ![i] =
                                         transferred(got[1], req[i].recipient)]
                        /\ exec_result' = exec_result
                        /\ Goto(i, "vm_put")
                   ELSE /\ vm_obj' = vm_obj
                        /\ exec_result' = [exec_result EXCEPT ![i] =
                              ExecutionResult(100, <<>>,
                                  << TransferExecutedLog(req[i].object, req[i].recipient) >>)]
                        /\ Goto(i, "put_touched")
                /\ StoreCall(i, VmGet, ok)
    /\ UNCHANGED <<req, report, put_idx, effects, current_seq,
                   inner, stores, sequencing, trace>>

\* VmPutObject handing the store's error to handle_transaction
VmPutObject_propagates_error(i, ok) ==
    /\ pc[i] = "vm_put"
    /\ IF ok
       THEN /\ objects' = MapPut(objects, vm_obj[i].id, vm_obj[i])
            /\ exec_result' = [exec_result EXCEPT ![i] =
                  ExecutionResult(100 + 400, << vm_obj[i] >>,
                      << TransferExecutedLog(req[i].object, req[i].recipient) >>)]
            /\ Goto(i, "put_touched")
       ELSE /\ objects' = objects
            /\ exec_result' = exec_result
            /\ ReturnErr(i, ObjectStoreError)
    /\ StoreCall(i, VmPut, ok)
    /\ UNCHANGED <<req, report, vm_obj, put_idx, effects, current_seq,
                   inner, effects_store, checkpoints, latest, sequencing, trace>>

\* execute_transfer, lines 72-95: store.put_object(obj.clone()).await
VmPutObject(i, ok) ==
    /\ pc[i] = "vm_put"
    /\ IF ok
       THEN /\ objects' = MapPut(objects, vm_obj[i].id, vm_obj[i])
            /\ exec_result' = [exec_result EXCEPT ![i] =
                  ExecutionResult(100 + 400, << vm_obj[i] >>,
                      << TransferExecutedLog(req[i].object, req[i].recipient) >>)]
       ELSE /\ objects' = objects
            /\ exec_result' = [exec_result EXCEPT ![i] =
                  ExecutionResult(100 + 400, <<>>, << TransferFailedLog >>)]
    /\ Goto(i, "put_touched")
    /\ StoreCall(i, VmPut, ok)
    /\ UNCHANGED <<req, report, vm_obj, put_idx, effects, current_seq,
                   inner, effects_store, checkpoints, latest, sequencing, trace>>

\* execute -> execute_move_call
VmMoveCall(i, rid) ==
    /\ pc[i] = "execute"
    /\ req[i].kind = "Call"
    /\ exec_result' = [exec_result EXCEPT ![i] =
          execute_move_call(req[i].module, req[i].function, req[i].arguments, rid)]
    /\ Goto(i, "put_touched")
    /\ UNCHANGED <<faults, req, report, vm_obj, put_idx, effects, current_seq,
                   inner, stores, sequencing, trace>>

\* lines 90-92: one turn of the loop, object_store.put_object(obj.clone()).await?
PutTouched(i, ok) ==
    /\ pc[i] = "put_touched"
    /\ put_idx[i] < Len(exec_result[i].touched_objects)
    /\ LET obj == exec_result[i].touched_objects[put_idx[i] + 1]
       IN  IF ok
           THEN /\ objects' = MapPut(objects, obj.id, obj)
                /\ put_idx' = [put_idx EXCEPT ![i] = @ + 1]
                /\ Goto(i, "put_touched")
           ELSE /\ objects' = objects
                /\ put_idx' = put_idx
                /\ ReturnErr(i, ObjectStoreError)
    /\ StoreCall(i, StorePut, ok)
    /\ UNCHANGED <<req, report, vm_obj, exec_result, effects, current_seq,
                   inner, effects_store, checkpoints, latest, sequencing, trace>>

\* SaveEffects going on to the sequence step whatever the store answered
SaveEffects_ignores_error(i, ok) ==
    /\ pc[i] = "put_touched"
    /\ put_idx[i] = Len(exec_result[i].touched_objects)
    /\ LET e == build_effects(req[i].digest, exec_result[i])
       IN  /\ effects' = [effects EXCEPT ![i] = e]
           /\ effects_store' = IF ok
                                THEN MapPut(effects_store, req[i].digest, effects_to_json(e))
                                ELSE effects_store
           /\ Goto(i, "seq_lock")
    /\ StoreCall(i, StoreSaveEffects, ok)
    /\ UNCHANGED <<req, report, vm_obj, exec_result, put_idx, current_seq,
                   inner, objects, checkpoints, latest, sequencing, trace>>

\* lines 94-106: the loop is over; build the effects, save_effects(..).await?
SaveEffects(i, ok) ==
    /\ pc[i] = "put_touched"
    /\ put_idx[i] = Len(exec_result[i].touched_objects)
    /\ LET e == build_effects(req[i].digest, exec_result[i])
       IN  /\ effects' = [effects EXCEPT ![i] = e]
           /\ IF ok
              THEN /\ effects_store' = MapPut(effects_store, req[i].digest, effects_to_json(e))
                   /\ Goto(i, "seq_lock")
              ELSE /\ effects_store' = effects_store
                   /\ ReturnErr(i, EffectsStoreError)
    /\ StoreCall(i, StoreSaveEffects, ok)
    /\ UNCHANGED <<req, report, vm_obj, exec_result, put_idx, current_seq,
                   inner, objects, checkpoints, latest, sequencing, trace>>

\* SeqLock not waiting for the mutex to be free
SeqLock_no_exclusion(i) ==
    /\ pc[i] = "seq_lock"
    /\ seq_mutex' = Some(i)
    /\ Goto(i, "seq_incr")
    /\ UNCHANGED <<faults, req, report, vm_obj, exec_result, put_idx, effects, current_seq,
                   inner, stores, sequence, summaries, cp_mutex, trace>>

\* line 108: self.sequence.lock().await
SeqLock(i) ==
    /\ pc[i] = "seq_lock"
    /\ seq_mutex = None
    /\ seq_mutex' = Some(i)
    /\ Goto(i, "seq_incr")
    /\ UNCHANGED <<faults, req, report, vm_obj, exec_result, put_idx, effects, current_seq,
                   inner, stores, sequence, summaries, cp_mutex, trace>>

\* line 109: *seq += 1, under the guard
SeqIncrement(i) ==
    /\ pc[i] = "seq_incr"
    /\ sequence' = sequence + 1
    /\ Goto(i, "seq_read")
    /\ UNCHANGED <<faults, req, report, vm_obj, exec_result, put_idx, effects, current_seq,
                   inner, stores, seq_mutex, summaries, cp_mutex, trace>>

\* SeqRead leaving the sequence mutex locked
SeqRead_keeps_mutex(i) ==
    /\ pc[i] = "seq_read"
    /\ current_seq' = [current_seq EXCEPT ![i] = sequence]
    /\ Goto(i, "cp_lock")
    /\ UNCHANGED <<faults, req, report, vm_obj, exec_result, put_idx, effects,
                   inner, stores, sequence, seq_mutex, summaries, cp_mutex, trace>>

\* lines 110-111: let current_seq = *seq; drop(seq)
SeqRead(i) ==
    /\ pc[i] = "seq_read"
    /\ current_seq' = [current_seq EXCEPT ![i] = sequence]
    /\ seq_mutex' = None
    /\ Goto(i, "cp_lock")
    /\ UNCHANGED <<faults, req, report, vm_obj, exec_result, put_idx, effects,
                   inner, stores, sequence, summaries, cp_mutex, trace>>

\* line 119: self.checkpoints.lock().await
CheckpointsLock(i) ==
    /\ pc[i] = "cp_lock"
    /\ cp_mutex = None
    /\ cp_mutex' = Some(i)
    /\ Goto(i, "cp_record")
    /\ UNCHANGED <<faults, req, report, vm_obj, exec_result, put_idx, effects, current_seq,
                   inner, stores, sequence, seq_mutex, summaries, trace>>

\* lines 113-121: checkpoints.record(checkpoint.clone()); drop(checkpoints)
CheckpointsRecord(i) ==
    /\ pc[i] = "cp_record"
    /\ summaries' = Append(summaries, CheckpointSummary(current_seq[i], req[i].digest))
    /\ cp_mutex' = None
    /\ Goto(i, "save_cp")
    /\ UNCHANGED <<faults, req, report, vm_obj, exec_result, put_idx, effects, current_seq,
                   inner, stores, sequence, seq_mutex, trace>>

\* lines 123-126: checkpoint_store.save_checkpoint(current_seq, ..).await?
SaveCheckpoint(i, ok) ==
    /\ pc[i] = "save_cp"
    /\ IF ok
       THEN /\ checkpoints' = MapPut(checkpoints, current_seq[i],
                  checkpoint_to_json(CheckpointSummary(current_seq[i], req[i].digest)))
            /\ latest' = Some(current_seq[i])
            /\ Goto(i, "notify")
       ELSE /\ UNCHANGED <<checkpoints, latest>>
            /\ ReturnErr(i, CheckpointStoreError)
    /\ StoreCall(i, StoreSaveCheckpoint, ok)
    /\ UNCHANGED <<req, report, vm_obj, exec_result, put_idx, effects, current_seq,
                   inner, objects, effects_store, sequencing, trace>>

\* Notify returning the enclave's error to the caller
Notify_propagates_error(i, ok) ==
    /\ pc[i] = "notify"
    /\ IF ok THEN Goto(i, "release") ELSE ReturnErr(i, "EnclaveError")
    /\ StoreCall(i, EnclaveSend, ok)
    /\ UNCHANGED <<req, report, vm_obj, exec_result, put_idx, effects, current_seq,
                   inner, stores, sequencing, trace>>

\* Notify releasing the lock as soon as the notification is sent
Notify_releases_lock(i, ok) ==
    /\ pc[i] = "notify"
    /\ inner' = IF report[i].requires_shared_lock
                THEN release(inner, simulated_object, Exclusive)
                ELSE inner
    /\ Goto(i, "release")
    /\ StoreCall(i, EnclaveSend, ok)
    /\ UNCHANGED <<req, report, vm_obj, exec_result, put_idx, effects, current_seq,
                   stores, sequencing, trace>>

\* lines 128-135: let _ = nautilus_client.send_transaction_sync(..): the
\* result is dropped
Notify(i, ok) ==
    /\ pc[i] = "notify"
    /\ Goto(i, "release")
    /\ StoreCall(i, EnclaveSend, ok)
    /\ UNCHANGED <<req, report, vm_obj, exec_result, put_idx, effects, current_seq,
                   inner, stores, sequencing, trace>>

\* lines 137-142: release the lock if one was taken; Ok(effects)
ReleaseReturn(i) ==
    /\ pc[i] = "release"
    /\ inner' = IF report[i].requires_shared_lock
                THEN release(inner, simulated_object, Exclusive)
                ELSE inner
    /\ ReturnErr(i, "Ok")
    /\ UNCHANGED <<faults, req, report, vm_obj, exec_result, put_idx, effects, current_seq,
                   stores, sequencing, trace>>

Next ==
    \/ \E i \in Tasks, r \in PipelineRequests : Receive(i, r)
    \/ \E i \in Tasks : AcquireLock(i)
    \/ \E i \in Tasks, ok \in StoreOutcomes : VmGetObject(i, ok)
    \/ \E i \in Tasks, ok \in StoreOutcomes : VmPutObject(i, ok)
    \/ \E i \in Tasks, rid \in RandomIds : VmMoveCall(i, rid)
    \/ \E i \in Tasks, ok \in StoreOutcomes : PutTouched(i, ok)
    \/ \E i \in Tasks, ok \in StoreOutcomes : SaveEffects(i, ok)
    \/ \E i \in Tasks : SeqLock(i)
    \/ \E i \in Tasks : SeqIncrement(i)
    \/ \E i \in Tasks : SeqRead(i)
    \/ \E i \in Tasks : CheckpointsLock(i)
    \/ \E i \in Tasks : CheckpointsRecord(i)
    \/ \E i \in Tasks, ok \in StoreOutcomes : SaveCheckpoint(i, ok)
    \/ \E i \in Tasks, ok \in EnclaveOutcomes : Notify(i, ok)
    \/ \E i \in Tasks : ReleaseReturn(i)

Spec == Init /\ [][Next]_vars


\* the steps of invocation i after it was received: every await of the task
\* returns and the task is polled again
Proceed(i) ==
    \/ AcquireLock(i)
    \/ \E ok \in StoreOutcomes : VmGetObject(i, ok)
    \/ \E ok \in StoreOutcomes : VmPutObject(i, ok)
    \/ \E rid \in RandomIds : VmMoveCall(i, rid)
    \/ \E ok \in StoreOutcomes : PutTouched(i, ok)
    \/ \E ok \in StoreOutcomes : SaveEffects(i, ok)
    \/ SeqLock(i)
    \/ SeqIncrement(i)
    \/ SeqRead(i)
    \/ CheckpointsLock(i)
    \/ CheckpointsRecord(i)
    \/ \E ok \in StoreOutcomes : SaveCheckpoint(i, ok)
    \/ \E ok \in EnclaveOutcomes : Notify(i, ok)
    \/ ReleaseReturn(i)

\* the pipeline under a fair scheduler: a task that can run is run
FairSpec == Spec /\ \A i \in Tasks : WF_vars(Proceed(i))

(* ------------------------------ one invocation, any request ----------- *)
\* the first invocation on a fresh node, given any request of Requests
NextOne ==
    \/ \E r \in Requests : Receive(1, r)
    \/ AcquireLock(1)
    \/ \E ok \in StoreOutcomes : VmGetObject(1, ok)
    \/ \E ok \in StoreOutcomes : VmPutObject(1, ok)
    \/ \E rid \in RandomIds : VmMoveCall(1, rid)
    \/ \E ok \in StoreOutcomes : PutTouched(1, ok)
    \/ \E ok \in StoreOutcomes : SaveEffects(1, ok)
    \/ SeqLock(1)
    \/ SeqIncrement(1)
    \/ SeqRead(1)
    \/ CheckpointsLock(1)
    \/ CheckpointsRecord(1)
    \/ \E ok \in StoreOutcomes : SaveCheckpoint(1, ok)
    \/ \E ok \in EnclaveOutcomes : Notify(1, ok)
    \/ ReleaseReturn(1)

SpecOne == Init /\ [][NextOne]_vars

(* ------------------------------ LockManager used directly ------------- *)
\* the objects callers lock: one id at each version
LockObjects ==
    {[NewObject("shared-1", OwnerShared, Coin(0)) EXCEPT !.version = v] : v \in 1..MaxVersion}

\* caller c calls lock_manager.acquire(object, mode)
CallAcquire(c, object, mode) ==
    /\ Len(trace) < MaxCalls
    /\ LET a == acquire(inner, object, mode)
       IN  /\ inner' = a.map
           /\ trace' = Append(trace,
                 [caller |-> c, op |-> "acquire", key |-> lock_key(object), mode |-> mode,
                  id |-> object.id, version |-> object.version,
                  free |-> lock_key(object) \notin DOMAIN inner, ret |-> a.ok])
    /\ UNCHANGED <<locals, stores, sequencing>>

\* caller c calls lock_manager.release(object, mode)
CallRelease(c, object, mode) ==
    /\ Len(trace) < MaxCalls
    /\ inner' = release(inner, object, mode)
    /\ trace' = Append(trace,
          [caller |-> c, op |-> "release", key |-> lock_key(object), mode |-> mode,
           id |-> object.id, version |-> object.version,
           free |-> lock_key(object) \notin DOMAIN inner, ret |-> TRUE])
    /\ UNCHANGED <<locals, stores, sequencing>>

NextLock ==
    \/ \E c \in Tasks, o \in LockObjects, m \in LockModes : CallAcquire(c, o, m)
    \/ \E c \in Tasks, o \in LockObjects, m \in LockModes : CallRelease(c, o, m)

SpecLock == Init /\ [][NextLock]_vars


(* ------------------------------ properties ---------------------------- *)
InProgress(i) == pc[i] \notin {"idle", "done"}
Quiescent == \A i \in Tasks : ~InProgress(i)
Returned(i, r) == pc[i] = "done" /\ result[i] = r
StoreErrors == {ObjectStoreError, EffectsStoreError, CheckpointStoreError}

\* invocation i took the exclusive lock in step 2 and has not released it
Holds(i) ==
    /\ pc[i] # "idle"
    /\ req[i].kind = "Call"
    /\ \/ pc[i] \in {"execute", "put_touched", "seq_lock", "seq_incr", "seq_read",
                     "cp_lock", "cp_record", "save_cp", "notify", "release"}
       \/ pc[i] = "done" /\ result[i] \in StoreErrors

InitialObjects == MapPut(EmptyMap, SeededObject.id, SeededObject)

\* nothing has been written: stores, lock table, counter and aggregator are as
\* ValidatorNode::new left them
Untouched ==
    /\ inner = EmptyMap
    /\ objects = InitialObjects
    /\ effects_store = EmptyMap
    /\ checkpoints = EmptyMap
    /\ latest = None
    /\ sequence = 0
    /\ summaries = <<>>

OkTasks == {i \in Tasks : Returned(i, "Ok")}

\* C1: once every invocation has returned and none failed after it was given a
\* sequence number, the sequence numbers of the invocations that returned Ok are
\* exactly 1..N, N the number of them, each given once
C1_SequenceNumbersArePermutation ==
    (Quiescent /\ \A i \in Tasks : result[i] # CheckpointStoreError)
        => /\ {current_seq[i] : i \in OkTasks} = 1..Cardinality(OkTasks)
           /\ \A i, j \in OkTasks : i # j => current_seq[i] # current_seq[j]

\* two invocations returned Ok, numbered against the order they were made in
C1_Witness ==
    /\ Quiescent
    /\ Returned(1, "Ok") /\ Returned(2, "Ok")
    /\ current_seq[1] = 2 /\ current_seq[2] = 1

\* C2: the aggregator's log is in strictly increasing sequence_number order in
\* every reachable state (so latest() is the highest number recorded)
C2_AggregatorLogIncreasing ==
    \A k \in 1..(Len(summaries) - 1) :
        summaries[k].sequence_number < summaries[k + 1].sequence_number

\* C3, in every state: at most one Call is between its lock acquisition and its
\* release, and a Call at step 2 can always take the step (it never waits)
C3_MutualExclusion ==
    /\ Cardinality({i \in Tasks : Holds(i)}) <= 1
    /\ \A i \in Tasks : pc[i] = "lock" => ENABLED AcquireLock(i)

\* C3, in every step: a Call that takes step 2 while another Call holds the
\* lock returns the lock-contention error
C3_RejectedWhileHeld ==
    \A i \in Tasks :
        (pc[i] = "lock" /\ pc'[i] # "lock" /\ \E j \in Tasks \ {i} : Holds(j))
            => (pc'[i] = "done" /\ result'[i] = LockContention)

\* C3: at most one Call holds the exclusive lock at any time, and a Call that
\* reaches step 2 while another holds it is rejected with the lock-contention
\* error instead of waiting
C3_OneHolderOthersRejected == []C3_MutualExclusion /\ [][C3_RejectedWhileHeld]_vars

\* one Call still holds the lock and another was rejected
C3_Witness ==
    \E i, j \in Tasks :
        /\ InProgress(i) /\ Holds(i)
        /\ Returned(j, LockContention)

\* C4: whenever no invocation is in progress the lock table is empty, whatever
\* the invocations returned
C4_LockReleasedOnReturn == Quiescent => inner = EmptyMap

\* C5: neither step of an invocation rejected for lock contention (its receipt
\* with the pre-check, and the failed acquire) changes the lock table, the
\* stores, the counter or the aggregator
C5_RejectionChangesNothing ==
    [][\A i \in Tasks :
         (\/ pc[i] = "idle" /\ pc'[i] = "lock"
          \/ pc[i] = "lock" /\ pc'[i] = "done")
            => UNCHANGED <<inner, stores, sequencing>>]_vars

\* a Call was rejected for contention after the holder had been sequenced
C5_Witness ==
    \E i, j \in Tasks :
        /\ Returned(i, LockContention)
        /\ Holds(j) /\ current_seq[j] > 0
        /\ inner # EmptyMap

\* C6: a request with zero gas budget, of either kind, is rejected with
\* InvalidGasBudget and nothing is written, locked or sequenced
C6_ZeroGasRejected ==
    \A i \in Tasks :
        (pc[i] # "idle" /\ req[i].gas_budget = 0)
            => (Returned(i, InvalidGasBudget) /\ Untouched)

\* a Call with zero gas budget was rejected
C6_Witness ==
    \E i \in Tasks :
        /\ pc[i] # "idle" /\ req[i].kind = "Call" /\ req[i].gas_budget = 0
        /\ ~is_empty(req[i].module) /\ ~is_empty(req[i].function)
        /\ Returned(i, InvalidGasBudget)

\* every character of s is whitespace (the empty string included)
WhitespaceOnly(s) == \A k \in 1..Len(s) : is_whitespace(s[k])

\* C7: a Transfer with positive gas budget and an empty or whitespace-only
\* recipient is rejected with MissingRecipient, the object store untouched
C7_BlankRecipientRejected ==
    \A i \in Tasks :
        (/\ pc[i] # "idle" /\ req[i].kind = "Transfer"
         /\ req[i].gas_budget > 0 /\ WhitespaceOnly(req[i].recipient))
            => (Returned(i, MissingRecipient) /\ objects = InitialObjects)

\* a Transfer to a recipient of two whitespace characters was rejected
C7_Witness ==
    \E i \in Tasks :
        /\ pc[i] # "idle" /\ req[i].kind = "Transfer" /\ req[i].gas_budget > 0
        /\ Len(req[i].recipient) = 2 /\ WhitespaceOnly(req[i].recipient)
        /\ Returned(i, MissingRecipient)

\* C8: a Call with positive gas budget and an empty module or function name is
\* rejected with InvalidCall, no lock taken and nothing written
C8_EmptyCallRejected ==
    \A i \in Tasks :
        (/\ pc[i] # "idle" /\ req[i].kind = "Call" /\ req[i].gas_budget > 0
         /\ (req[i].module = <<>> \/ req[i].function = <<>>))
            => (Returned(i, InvalidCall) /\ Untouched)

\* a Call with a module name and no function name was rejected
C8_Witness ==
    \E i \in Tasks :
        /\ pc[i] # "idle" /\ req[i].kind = "Call" /\ req[i].gas_budget > 0
        /\ req[i].module # <<>> /\ req[i].function = <<>>
        /\ Returned(i, InvalidCall)

\* call p of the trace is op(key, Exclusive)
ExclusiveCall(p, op, key) ==
    /\ trace[p].op = op /\ trace[p].key = key /\ trace[p].mode = Exclusive

\* no call strictly between p and q is on key
NoCallBetween(p, q, key) ==
    \A n \in (p + 1)..(q - 1) : trace[n].key # key

\* calls p < q are acquire(Exclusive) on one free key by two callers, nothing
\* else on that key in between
TwoContenders(p, q) ==
    /\ p < q
    /\ ExclusiveCall(p, "acquire", trace[p].key)
    /\ ExclusiveCall(q, "acquire", trace[p].key)
    /\ trace[p].caller # trace[q].caller
    /\ trace[p].free
    /\ NoCallBetween(p, q, trace[p].key)

\* after contenders p < q: r is the holder's release(Exclusive) and s the next
\* call on the key, an acquire(Exclusive)
ReleasedThenAcquired(p, q, r, s) ==
    /\ q < r /\ r < s
    /\ ExclusiveCall(r, "release", trace[p].key)
    /\ trace[r].caller = trace[p].caller
    /\ ExclusiveCall(s, "acquire", trace[p].key)
    /\ NoCallBetween(q, r, trace[p].key)
    /\ NoCallBetween(r, s, trace[p].key)

\* C9: of two callers' acquire(Exclusive) on a free key exactly one returns true
\* (the first to run) and the other false; after the holder's
\* release(Exclusive) the next acquire(Exclusive) on the key returns true
C9_ExclusiveContention ==
    \A p, q \in 1..Len(trace) :
        TwoContenders(p, q)
            => /\ trace[p].ret /\ ~trace[q].ret
               /\ \A r, s \in 1..Len(trace) :
                     ReleasedThenAcquired(p, q, r, s) => trace[s].ret

\* two contenders, the holder's release and a successful acquire after it
C9_Witness ==
    \E p, q, r, s \in 1..Len(trace) :
        /\ TwoContenders(p, q) /\ ReleasedThenAcquired(p, q, r, s)
        /\ trace[p].ret /\ ~trace[q].ret /\ trace[s].ret

\* C10: no lock table entry has the exclusive flag set together with a
\* shared-holder count above zero
C10_ExclusiveExcludesShared ==
    \A key \in DOMAIN inner :
        ~(inner[key].exclusive /\ inner[key].shared_count > 0)

\* a key held exclusively after a shared acquire on it failed and a shared
\* release on it was made
C10_Witness ==
    \E key \in DOMAIN inner :
        /\ inner[key].exclusive
        /\ \E p, r \in 1..Len(trace) :
              /\ p < r
              /\ trace[p].op = "acquire" /\ trace[p].key = key
              /\ trace[p].mode = Shared /\ ~trace[p].ret
              /\ trace[r].op = "release" /\ trace[r].key = key
              /\ trace[r].mode = Shared


\* C11: the lock table holds no entry with zero shared holders and the
\* exclusive flag clear, whatever acquire and release calls were made
C11_NoEmptyEntries ==
    \A key \in DOMAIN inner :
        inner[key].shared_count > 0 \/ inner[key].exclusive

\* an acquire failed on a key, a later release emptied that key's entry, which
\* is gone, while another key is still held
C11_Witness ==
    \E p, r \in 1..Len(trace) :
        /\ p < r
        /\ trace[p].op = "acquire" /\ ~trace[p].ret
        /\ trace[r].op = "release" /\ trace[r].key = trace[p].key
        /\ ~trace[r].free
        /\ trace[p].key \notin DOMAIN inner
        /\ inner # EmptyMap

\* the entry of key in table m, a default one when there is none
EntryOf(m, key) == IF key \in DOMAIN m THEN m[key] ELSE DefaultLockState

\* what the shared/exclusive rule grants on entry e
Granted(e, mode) ==
    IF mode = Shared THEN ~e.exclusive ELSE ~e.exclusive /\ e.shared_count = 0

\* the step is an acquire call that follows the rule: it returns true exactly
\* when the rule grants the mode on the key's entry, a granted call changes
\* that entry alone (count raised by one, or flag set), a refused one nothing
AcquireFollowsRule ==
    (Len(trace') = Len(trace) + 1 /\ trace'[Len(trace')].op = "acquire")
        => LET call == trace'[Len(trace')]
               before == EntryOf(inner, call.key)
           IN  /\ call.ret = Granted(before, call.mode)
               /\ ~call.ret => inner' = inner
               /\ call.ret =>
                    /\ DOMAIN inner' = DOMAIN inner \cup {call.key}
                    /\ \A k \in DOMAIN inner : k # call.key => inner'[k] = inner[k]
                    /\ inner'[call.key] =
                          IF call.mode = Shared
                          THEN [before EXCEPT !.shared_count = before.shared_count + 1]
                          ELSE [before EXCEPT !.exclusive = TRUE]

\* C12: every acquire call follows the shared/exclusive rule on the table it
\* finds, and an acquire that returns false changes nothing
C12_AcquireRule == [][AcquireFollowsRule]_vars

\* a shared acquire raised a count to two and an exclusive acquire on that
\* key was then refused
C12_Witness ==
    \E p, q \in 1..Len(trace) :
        /\ p < q
        /\ trace[p].op = "acquire" /\ trace[p].mode = Shared /\ trace[p].ret
        /\ ~trace[p].free
        /\ trace[q].op = "acquire" /\ trace[q].mode = Exclusive /\ ~trace[q].ret
        /\ trace[q].key = trace[p].key
        /\ trace[p].key \in DOMAIN inner
        /\ inner[trace[p].key].shared_count = 2


\* C13: for every object id, under any interleaving of invocations, the
\* version held in the object store never decreases
C13_VersionNeverDecreases ==
    [][\A id \in DOMAIN objects :
          id \in DOMAIN objects' => objects'[id].version >= objects[id].version]_vars


\* execute has returned to invocation i
Executed(i) ==
    \/ pc[i] \in {"put_touched", "seq_lock", "seq_incr", "seq_read",
                  "cp_lock", "cp_record", "save_cp", "notify", "release"}
    \/ pc[i] = "done" /\ result[i] \in {"Ok"} \cup StoreErrors

\* the store calls made inside execute
ExecutionCalls == {VmGet, VmPut}

\* C14: a Transfer of the stored object, run alone with the store answering
\* the read and the write of execute_transfer, yields exactly one touched
\* object (same id and payload, owner the recipient's address, version the
\* stored version plus one), gas_used 500, and the store holds that object
C14_TransferOfStoredObject ==
    \A i \in Tasks :
        (/\ Executed(i)
         /\ req[i].kind = "Transfer"
         /\ req[i].object = SeededObject.id
         /\ faults[i] \cap ExecutionCalls = {})
        => LET obj == [id |-> SeededObject.id,
                       version |-> SeededObject.version + 1,
                       owner |-> OwnerAddress(req[i].recipient),
                       data |-> SeededObject.data]
           IN  /\ exec_result[i].touched_objects = << obj >>
               /\ exec_result[i].gas_used = 500
               /\ objects[SeededObject.id] = obj

\* the transfer went through the whole pipeline and the stored object is at
\* version 2, owned by the recipient
C14_Witness ==
    /\ Returned(1, "Ok")
    /\ req[1].kind = "Transfer"
    /\ req[1].object = SeededObject.id
    /\ faults[1] = {}
    /\ objects[SeededObject.id].version = 2
    /\ objects[SeededObject.id].owner = OwnerAddress(req[1].recipient)
    /\ Len(exec_result[1].touched_objects) = 1


\* C15: a Transfer whose target object is absent from the validator's object
\* store yields an execution result with one new object owned by the recipient
C15_AbsentObjectGetsStandIn ==
    \A i \in Tasks :
        (/\ Executed(i)
         /\ req[i].kind = "Transfer"
         /\ req[i].object \notin DOMAIN InitialObjects
         /\ faults[i] = {})
        => /\ Len(exec_result[i].touched_objects) = 1
           /\ exec_result[i].touched_objects[1].owner = OwnerAddress(req[i].recipient)


\* invocation i is inside execute
Executing(i) == pc[i] \in {"execute", "vm_put"}

\* a step of an invocation inside execute stays inside execute or returns an
\* execution result to handle_transaction
ExecuteReturnsResult ==
    \A i \in Tasks :
        (Executing(i) /\ pc'[i] # pc[i])
        => /\ pc'[i] \in {"vm_put", "put_touched"}
           /\ pc'[i] = "put_touched" => exec_result'[i].gas_used >= 100

\* an invocation that passed pre-check and the lock and whose only failing
\* store calls were made inside execute has returned Ok, with its effects
\* saved and a checkpoint saved under its sequence number
FaultInExecuteAbsorbed ==
    \A i \in Tasks :
        (/\ pc[i] = "done"
         /\ result[i] \in {"Ok"} \cup StoreErrors
         /\ faults[i] \subseteq ExecutionCalls)
        => /\ result[i] = "Ok"
           /\ req[i].digest \in DOMAIN effects_store
           /\ current_seq[i] \in DOMAIN checkpoints

\* C16: execute never fails, also when the store's get or put fails inside it,
\* and a fault inside execute alone never makes handle_transaction return an
\* error: effects and checkpoint are still produced
C16_ExecuteNeverFails == [][ExecuteReturnsResult]_vars /\ []FaultInExecuteAbsorbed

\* a Transfer whose put failed inside execute returned Ok with effects saved,
\* and another whose get failed did too
C16_Witness ==
    \E i, j \in Tasks :
        /\ Returned(i, "Ok") /\ faults[i] = {VmPut}
        /\ exec_result[i].logs = << TransferFailedLog >>
        /\ req[i].digest \in DOMAIN effects_store
        /\ Returned(j, "Ok") /\ faults[j] = {VmGet}


\* C17: whenever the store's get or put fails during the execution of a
\* Transfer, the logs of the execution result contain a message describing
\* the failure and no success message
C17_StoreFaultIsLogged ==
    \A i \in Tasks :
        (/\ Executed(i)
         /\ req[i].kind = "Transfer"
         /\ faults[i] \cap ExecutionCalls # {})
        => LET logs == exec_result[i].logs
           IN  /\ \E n \in 1..Len(logs) : logs[n][1] = "Transfer failed: "
               /\ \A n \in 1..Len(logs) :
                     logs[n] # TransferExecutedLog(req[i].object, req[i].recipient)


\* invocation i has built its effects (lines 94-101)
EffectsBuilt(i) ==
    \/ pc[i] \in {"seq_lock", "seq_incr", "seq_read",
                  "cp_lock", "cp_record", "save_cp", "notify", "release"}
    \/ pc[i] = "done" /\ result[i] \in {"Ok", EffectsStoreError, CheckpointStoreError}

IsCall(i, module, function) ==
    /\ req[i].kind = "Call"
    /\ req[i].module = module
    /\ req[i].function = function

\* C18: a Call to coin::mint that passed pre-check and the lock produces
\* effects with exactly one new object, a Coin of balance 1000 owned by
\* Address("mint-address") at version 1, and a log entry naming coin::mint;
\* once handle_transaction has returned Ok that object is in the object store
C18_MintCreatesCoin ==
    \A i \in Tasks :
        (EffectsBuilt(i) /\ IsCall(i, <<"coin">>, <<"mint">>))
        => /\ Len(effects[i].created) = 1
           /\ effects[i].mutated = <<>>
           /\ LET obj == effects[i].created[1]
              IN  /\ obj.data = [type |-> "Coin", balance |-> 1000]
                  /\ obj.owner = <<"Address", <<"mint-address">> >>
                  /\ obj.version = 1
                  /\ obj.id \in RandomIds
                  /\ Returned(i, "Ok")
                       => obj.id \in DOMAIN objects /\ objects[obj.id] = obj
           /\ \E n \in 1..Len(effects[i].events) :
                 effects[i].events[n] = <<"Move call: ", "coin", "::", "mint">>

\* a mint returned Ok and the minted coin is stored next to the seeded object
C18_Witness ==
    \E i \in Tasks :
        /\ Returned(i, "Ok")
        /\ IsCall(i, <<"coin">>, <<"mint">>)
        /\ Len(effects[i].created) = 1
        /\ effects[i].created[1].id \in DOMAIN objects
        /\ SeededObject.id \in DOMAIN objects


\* sub occurs in s as a run of consecutive elements
IsInfix(sub, s) ==
    \E k \in 0..(Len(s) - Len(sub)) : SubSeq(s, k + 1, k + Len(sub)) = sub

\* the pair of the Call of invocation i has no built-in handler
UnrecognizedCall(i) ==
    /\ req[i].kind = "Call"
    /\ ~IsCall(i, <<"coin">>, <<"transfer">>)
    /\ ~IsCall(i, <<"coin">>, <<"mint">>)

PreCheckErrors == {InvalidGasBudget, MissingRecipient, InvalidCall}

\* C19: a Call with a pair other than coin::transfer and coin::mint does not
\* fail: its execution logs the invocation, touches no object and leaves the
\* object store unchanged, and with the stores answering it returns Ok with
\* its effects and a checkpoint saved
C19_UnrecognizedCall ==
    \A i \in Tasks :
        (pc[i] # "idle" /\ UnrecognizedCall(i) /\ result[i] \notin PreCheckErrors)
        => /\ objects = InitialObjects
           /\ Executed(i) =>
                /\ exec_result[i].touched_objects = <<>>
                /\ exec_result[i].logs[1] =
                      <<"Move call: ">> \o req[i].module \o <<"::">> \o req[i].function
                /\ \E n \in 1..Len(exec_result[i].logs) :
                      IsInfix(<<"Executed ">> \o req[i].module \o <<"::">> \o req[i].function,
                              exec_result[i].logs[n])
           /\ EffectsBuilt(i) => effects[i].created = <<>>
           /\ (pc[i] = "done" /\ faults[i] = {}) =>
                /\ result[i] = "Ok"
                /\ req[i].digest \in DOMAIN effects_store
                /\ effects_store[req[i].digest] = effects_to_json(effects[i])
                /\ current_seq[i] = 1
                /\ 1 \in DOMAIN checkpoints

\* an nft call with an argument went through the whole pipeline
C19_Witness ==
    /\ Returned(1, "Ok")
    /\ UnrecognizedCall(1)
    /\ req[1].module = <<"nft">>
    /\ Len(req[1].arguments) = 1
    /\ exec_result[1].touched_objects = <<>>
    /\ req[1].digest \in DOMAIN effects_store
    /\ 1 \in DOMAIN checkpoints

\* the gas the function handler charges for a pair
HandlerCost(module, function) ==
    IF module = <<"coin">> /\ function = <<"transfer">> THEN 300
    ELSE IF module = <<"coin">> /\ function = <<"mint">> THEN 200
    ELSE 150

\* 50 for each interpreted instruction of a call with k arguments: k constant
\* loads, one call, one return
InstructionCost(k) == 50 * (k + 2)

\* C20 as stated: gas_used of a Call with k arguments is 50 for each
\* interpreted instruction plus the handler's cost, and nothing else
C20_GasWithoutSurcharge ==
    \A i \in Tasks :
        (Executed(i) /\ req[i].kind = "Call")
        => exec_result[i].gas_used =
              InstructionCost(Len(req[i].arguments))
                 + HandlerCost(req[i].module, req[i].function)

\* C20: gas_used of a Call with k arguments is 50 for each interpreted
\* instruction plus the handler's cost plus the flat 200 that
\* execute_move_call adds
C20_GasWithSurcharge ==
    \A i \in Tasks :
        (Executed(i) /\ req[i].kind = "Call")
        => exec_result[i].gas_used =
              InstructionCost(Len(req[i].arguments))
                 + HandlerCost(req[i].module, req[i].function) + 200

\* a coin::transfer call with one argument was executed: 150 + 300 + 200
C20_Witness ==
    /\ Executed(1)
    /\ IsCall(1, <<"coin">>, <<"transfer">>)
    /\ Len(req[1].arguments) = 1
    /\ exec_result[1].gas_used = 650


\* no other request given to the node carries the digest of invocation i
DigestUnique(i) ==
    \A j \in Tasks \ {i} : pc[j] = "idle" \/ req[j].digest # req[i].digest

RecordedAt(s) == {n \in 1..Len(summaries) : summaries[n].sequence_number = s}

\* invocation i, which returned Ok with sequence number s, has one summary in
\* the aggregator and one in the checkpoint store under key s, each with
\* sequence_number s, transaction_count 1 and the request's digest
CheckpointOfSuccess(i) ==
    LET s == current_seq[i]
    IN  /\ s >= 1
        /\ s \in DOMAIN checkpoints
        /\ json_field(checkpoints[s], "sequence_number") = s
        /\ json_field(checkpoints[s], "transaction_count") = 1
        /\ json_field(checkpoints[s], "root_digest") = req[i].digest
        /\ Cardinality(RecordedAt(s)) = 1
        /\ \A n \in RecordedAt(s) :
              /\ summaries[n].transaction_count = 1
              /\ summaries[n].root_digest = req[i].digest

\* an entry of the checkpoint store is never removed or replaced
CheckpointEntriesKept ==
    \A k \in DOMAIN checkpoints :
        k \in DOMAIN checkpoints' /\ checkpoints'[k] = checkpoints[k]

\* C22: every invocation that returned Ok with sequence number s has appended
\* to the aggregator and persisted under key s one summary with
\* sequence_number s, transaction_count 1 and root_digest the request's
\* digest, and no later transaction overwrites the entry under key s
C22_CheckpointPerSuccess ==
    /\ [](\A i \in Tasks : Returned(i, "Ok") => CheckpointOfSuccess(i))
    /\ [][CheckpointEntriesKept]_vars

\* two invocations returned Ok with sequence numbers 1 and 2, both persisted
C22_Witness ==
    /\ Returned(1, "Ok") /\ Returned(2, "Ok")
    /\ {current_seq[1], current_seq[2]} = {1, 2}
    /\ DOMAIN checkpoints = {1, 2}
    /\ Len(summaries) = 2


\* every object touched by the execution of invocation i is in the object
\* store as the execution left it
MutationApplied(i) ==
    \A n \in 1..Len(exec_result[i].touched_objects) :
        LET obj == exec_result[i].touched_objects[n]
        IN  obj.id \in DOMAIN objects /\ objects[obj.id] = obj

\* C23: when save_effects fails after execution, handle_transaction returns
\* the error, the object store keeps what execution wrote, no sequence number
\* is consumed and no checkpoint is appended or persisted for the request
C23_EffectsSaveFailure ==
    \A i \in Tasks :
        StoreSaveEffects \in faults[i]
        => /\ Returned(i, EffectsStoreError)
           /\ MutationApplied(i)
           /\ current_seq[i] = 0
           /\ sequence = 0
           /\ summaries = <<>>
           /\ checkpoints = EmptyMap
           /\ latest = None
           /\ req[i].digest \notin DOMAIN effects_store

\* a transfer of the seeded object was executed and stored at version 2, and
\* then save_effects failed
C23_Witness ==
    /\ Returned(1, EffectsStoreError)
    /\ faults[1] = {StoreSaveEffects}
    /\ req[1].kind = "Transfer"
    /\ Len(exec_result[1].touched_objects) = 1
    /\ objects[SeededObject.id].version = 2
    /\ sequence = 0


\* the notification step of an invocation changes neither its result, nor its
\* effects, nor a store, the counter, the aggregator or the lock table, and
\* leads to the release step, whatever the enclave answered
NotificationChangesNothing ==
    \A i \in Tasks :
        (pc[i] = "notify" /\ pc'[i] # "notify")
        => /\ pc'[i] = "release"
           /\ result'[i] = result[i]
           /\ effects' = effects
           /\ stores' = stores
           /\ sequencing' = sequencing
           /\ inner' = inner

\* the step after the notification returns Ok(effects) and leaves no lock of
\* the invocation behind
ReleasedAndOk ==
    \A i \in Tasks :
        (pc[i] = "release" /\ pc'[i] # "release")
        => /\ pc'[i] = "done"
           /\ result'[i] = "Ok"
           /\ effects' = effects
           /\ stores' = stores
           /\ sequencing' = sequencing
           /\ IF req[i].kind = "Call"
              THEN lock_key(simulated_object) \notin DOMAIN inner'
              ELSE inner' = inner

\* C24: the outcome of handle_transaction does not depend on the enclave
\* notification: whether send_transaction_sync returns Ok or Err, the
\* returned effects, the stores, the sequence counter and the lock release
\* are the same
C24_NotificationIgnored == [][NotificationChangesNothing /\ ReleasedAndOk]_vars

\* a call whose notification failed and a call whose notification went
\* through both returned Ok, and the lock table is empty
C24_Witness ==
    \E i, j \in Tasks :
        /\ Returned(i, "Ok") /\ faults[i] = {EnclaveSend} /\ req[i].kind = "Call"
        /\ Returned(j, "Ok") /\ faults[j] = {} /\ req[j].kind = "Call"
        /\ inner = EmptyMap
        /\ DOMAIN checkpoints = {1, 2}


(* ------------------------------ transport ----------------------------- *)
\* Result values: Ok(v) and Err(e)
Ok(v) == [ok |-> TRUE, value |-> v]
Err(e) == [ok |-> FALSE, error |-> e]

SubmitTransactionResponse(accepted, message) ==
    [accepted |-> accepted, message |-> message]

\* the handler reporting every transaction as accepted
ValidatorHandler_accepts_all(outcome) ==
    Ok(SubmitTransactionResponse(TRUE, <<"Transaction processed successfully">>))

\* ValidatorHandler::handle_transaction on the outcome of
\* ValidatorNode::handle_transaction: "Ok" or the error it returned
ValidatorHandler_handle_transaction(outcome) ==
    IF outcome = "Ok"
    THEN Ok(SubmitTransactionResponse(TRUE, <<"Transaction processed successfully">>))
    ELSE Ok(SubmitTransactionResponse(FALSE, <<"Transaction failed: ", outcome>>))

\* network::submit_transaction on what the handler returned: always
\* Ok(Json(response)), never a StatusCode
submit_transaction(handled) ==
    IF handled.ok
    THEN Ok(handled.value)
    ELSE Ok(SubmitTransactionResponse(FALSE, <<"Error: ", handled.error>>))

\* the errors handle_transaction returns
PipelineErrors == PreCheckErrors \cup {LockContention} \cup StoreErrors

\* C25: the submit operation always returns a structured response: accepted is
\* true exactly when handle_transaction returned Ok, and it is false with a
\* message for every pre-check, lock-contention or persistence error
C25_SubmitAlwaysResponds ==
    \A i \in Tasks :
        pc[i] = "done"
        => LET sent == submit_transaction(ValidatorHandler_handle_transaction(result[i]))
           IN  /\ sent.ok
               /\ sent.value.accepted = (result[i] = "Ok")
               /\ Len(sent.value.message) > 0
               /\ result[i] # "Ok" =>
                    /\ result[i] \in PipelineErrors
                    /\ sent.value.message[Len(sent.value.message)] = result[i]

\* one request was rejected for lock contention and the other failed at a
\* store after it took the lock
C25_Witness ==
    \E i, j \in Tasks :
        /\ Returned(i, LockContention)
        /\ Returned(j, CheckpointStoreError)
        /\ ~submit_transaction(ValidatorHandler_handle_transaction(result[i])).value.accepted


\* requests r and q carry the same payload: they differ at most in the digest
SamePayload(r, q) == [r EXCEPT !.digest = q.digest] = q

\* the request breaks the rule of its kind: blank recipient, or an empty
\* module or function name
BreaksKindRule(r) ==
    IF r.kind = "Transfer"
    THEN WhitespaceOnly(r.recipient)
    ELSE r.module = <<>> \/ r.function = <<>>

\* the outcome of the pre-check of invocation i, as handle_transaction shows it
PreCheckOutcome(i) == IF result[i] \in PreCheckErrors THEN result[i] ELSE "passed"

\* C26: the pre-check applies the gas rule first: a request with zero gas
\* budget that also has a blank recipient or an empty module or function is
\* rejected with InvalidGasBudget; and the outcome depends only on the
\* payload: every request with the same payload gets the same outcome
C26_GasRuleFirst ==
    \A i \in Tasks :
        pc[i] # "idle"
        => /\ (req[i].gas_budget = 0 /\ BreaksKindRule(req[i]))
                => Returned(i, InvalidGasBudget)
           /\ \A r \in Requests :
                SamePayload(r, req[i])
                => /\ run(r) = run(req[i])
                   /\ PreCheckOutcome(i) = IF run(r).ok THEN "passed" ELSE run(r).err

\* a Transfer with zero gas and a whitespace recipient was rejected for its gas
C26_Witness ==
    /\ pc[1] # "idle"
    /\ req[1].kind = "Transfer"
    /\ req[1].gas_budget = 0
    /\ Len(req[1].recipient) > 0 /\ WhitespaceOnly(req[1].recipient)
    /\ Returned(1, InvalidGasBudget)
    /\ \E r \in Requests : r # req[1] /\ SamePayload(r, req[1])


\* the lock table has the exclusive flag set on the designated lock object
LockTaken ==
    /\ lock_key(simulated_object) \in DOMAIN inner
    /\ inner[lock_key(simulated_object)].exclusive

\* invocation i is a Call between its acquire (step 2) and its release (step 7)
BetweenAcquireAndRelease(i) ==
    /\ pc[i] \in {"execute", "put_touched", "seq_lock", "seq_incr", "seq_read",
                  "cp_lock", "cp_record", "save_cp", "notify", "release"}
    /\ req[i].kind = "Call"

\* from execution to the end of the notification the flag is set, and for one
\* Call only
HeldThroughPipeline ==
    \A i \in Tasks :
        BetweenAcquireAndRelease(i)
        => /\ LockTaken
           /\ \A j \in Tasks \ {i} : ~BetweenAcquireAndRelease(j)

\* the flag is cleared only by the last step of a Call whose effects and
\* checkpoint are persisted and whose notification was attempted, the step
\* that returns Ok
ReleasedOnlyAtTheEnd ==
    (LockTaken /\ ~LockTaken')
    => \E i \in Tasks :
          /\ pc[i] = "release" /\ req[i].kind = "Call"
          /\ req[i].digest \in DOMAIN effects_store
          /\ current_seq[i] >= 1
          /\ current_seq[i] \in DOMAIN checkpoints
          /\ pc'[i] = "done" /\ result'[i] = "Ok"

\* a Call that returned Ok has left the flag clear, or set by another Call
ReleasedBeforeReturn ==
    \A i \in Tasks :
        (Returned(i, "Ok") /\ req[i].kind = "Call" /\ LockTaken)
        => \E j \in Tasks \ {i} : Holds(j)

\* C27: a successful Call holds the exclusive lock continuously from step 2
\* through execution, effects persistence, sequence assignment, checkpoint
\* persistence and the notification, and releases it only then, before the
\* effects are returned
C27_LockHeldToTheEnd ==
    /\ [](HeldThroughPipeline /\ ReleasedBeforeReturn)
    /\ [][ReleasedOnlyAtTheEnd]_vars

\* a Call returned Ok and released the lock after another Call was rejected
\* for contention while it held it
C27_Witness ==
    \E i, j \in Tasks :
        /\ Returned(i, "Ok") /\ req[i].kind = "Call"
        /\ Returned(j, LockContention)
        /\ ~LockTaken
        /\ inner = EmptyMap


\* InMemoryCheckpointStore::get_latest_sequence
get_latest_sequence == latest

\* the greatest element of a non-empty set of numbers
Max(S) == CHOOSE m \in S : \A n \in S : n <= m

\* C28: whenever no invocation is in progress and at least one has succeeded
\* (here: and no store call has failed), latestSequence() is the greatest
\* sequence number persisted in the checkpoint store and is the value of the
\* sequence counter
C28_LatestIsGreatest ==
    (/\ Quiescent
     /\ OkTasks # {}
     /\ \A i \in Tasks : faults[i] \subseteq {EnclaveSend})
    => /\ get_latest_sequence = Some(Max(DOMAIN checkpoints))
       /\ get_latest_sequence = Some(sequence)


\* the positions of the aggregator's log whose summary carries digest d
CheckpointsOf(d) == {n \in 1..Len(summaries) : summaries[n].root_digest = d}

\* the value stored under a digest is never replaced by another
StoredEffectsKept ==
    \A d \in DOMAIN effects_store :
        d \in DOMAIN effects_store' /\ effects_store'[d] = effects_store[d]

\* C29: once effects are stored under digest d no later request, one that
\* reuses d included, changes the value stored under d, and at most one
\* checkpoint carries d as its root_digest
C29_EffectsOncePerDigest ==
    /\ [][StoredEffectsKept]_vars
    /\ [](\A d \in Digests : Cardinality(CheckpointsOf(d)) <= 1)


\* C30: in every reachable state the effects store holds an entry under the
\* root_digest of every summary of the aggregator and of every summary in the
\* checkpoint store, also after a store call failed at any step
C30_CheckpointImpliesEffects ==
    /\ \A n \in 1..Len(summaries) :
          summaries[n].root_digest \in DOMAIN effects_store
    /\ \A k \in DOMAIN checkpoints :
          json_field(checkpoints[k], "root_digest") \in DOMAIN effects_store

\* one request failed at save_checkpoint after its summary was appended, the
\* other failed at save_effects and left neither effects nor a summary
C30_Witness ==
    \E i, j \in Tasks :
        /\ Returned(i, CheckpointStoreError)
        /\ Returned(j, EffectsStoreError)
        /\ req[i].digest # req[j].digest
        /\ Len(summaries) = 1
        /\ summaries[1].root_digest = req[i].digest
        /\ DOMAIN effects_store = {req[i].digest}


\* call n of the trace is op(object with identity id at version v, mode)
CallOn(n, op, id, v, mode) ==
    /\ trace[n].op = op /\ trace[n].mode = mode
    /\ trace[n].id = id /\ trace[n].version = v

\* no call strictly between p and q is on the object id at version v
Undisturbed(p, q, id, v) ==
    \A n \in (p + 1)..(q - 1) : ~(trace[n].id = id /\ trace[n].version = v)

\* call p is a granted acquire(Exclusive) of an object on a free key and call
\* r > p the release(Exclusive) of the same object at the next version, which
\* nothing holds, with no call on the acquired version in between
ReleasedAtNextVersion(p, r) ==
    /\ p < r
    /\ CallOn(p, "acquire", trace[p].id, trace[p].version, Exclusive)
    /\ trace[p].free /\ trace[p].ret
    /\ CallOn(r, "release", trace[p].id, trace[p].version + 1, Exclusive)
    /\ trace[r].free
    /\ Undisturbed(p, r, trace[p].id, trace[p].version)

\* C31: locks are keyed by (id, version): after a granted acquire(Exclusive)
\* of an object at version v, a release with the same object at version v + 1
\* leaves the entry of version v held, so the next acquire on (id, v) is
\* refused while the next acquire on (id, v + 1) is granted
C31_ReleaseAtOtherVersion ==
    \A p, r \in 1..Len(trace) :
        ReleasedAtNextVersion(p, r)
        => LET id == trace[p].id
               v == trace[p].version
           IN  /\ \A s \in (r + 1)..Len(trace) :
                    /\ (trace[s].op = "acquire" /\ trace[s].id = id
                        /\ trace[s].version = v /\ Undisturbed(r, s, id, v))
                          => ~trace[s].ret
                    /\ (trace[s].op = "acquire" /\ trace[s].id = id
                        /\ trace[s].version = v + 1 /\ Undisturbed(r, s, id, v + 1))
                          => trace[s].ret
               /\ Undisturbed(r, Len(trace) + 1, id, v)
                    => /\ <<id, v>> \in DOMAIN inner
                       /\ inner[<<id, v>>].exclusive

\* acquire at version 1 granted, release at version 2, acquire at version 1
\* refused, acquire at version 2 granted
C31_Witness ==
    /\ Len(trace) = 4
    /\ ReleasedAtNextVersion(1, 2)
    /\ trace[3].op = "acquire" /\ trace[3].version = trace[1].version
    /\ ~trace[3].ret
    /\ trace[4].op = "acquire" /\ trace[4].version = trace[1].version + 1
    /\ trace[4].ret


\* the step is a release call that touches only what it names: the entries of
\* other keys stay, a key without entry gets none, release(Shared) leaves the
\* exclusive flag as it was and lowers a positive shared count by one (a zero
\* count stays zero), release(Exclusive) leaves the shared count as it was
ReleaseTouchesOnlyItsMode ==
    (Len(trace') = Len(trace) + 1 /\ trace'[Len(trace')].op = "release")
        => LET call == trace'[Len(trace')]
               before == EntryOf(inner, call.key)
               after == EntryOf(inner', call.key)
           IN  /\ \A k \in (DOMAIN inner \cup DOMAIN inner') \ {call.key} :
                     k \in DOMAIN inner /\ k \in DOMAIN inner' /\ inner'[k] = inner[k]
               /\ call.key \notin DOMAIN inner => inner' = inner
               /\ call.mode = Shared =>
                     /\ after.exclusive = before.exclusive
                     /\ after.shared_count =
                           IF before.shared_count > 0 THEN before.shared_count - 1 ELSE 0
               /\ call.mode = Exclusive =>
                     /\ after.shared_count = before.shared_count
                     /\ ~after.exclusive

\* C32: release affects only the mode it names and holders that exist:
\* release(Shared) on an exclusively held key leaves the flag set,
\* release(Exclusive) on a key with shared holders leaves the count, a shared
\* count never goes below zero, and release on a key without entry changes
\* nothing
C32_ReleaseFrame == [][ReleaseTouchesOnlyItsMode]_vars

\* a release(Shared) on an exclusively held key and a release(Exclusive) on a
\* key with a shared holder were made: the flag and the holder are still there
C32_Witness ==
    \E b, c \in 1..Len(trace) :
        /\ trace[b].op = "release" /\ trace[b].mode = Shared /\ ~trace[b].free
        /\ trace[b].key \in DOMAIN inner /\ inner[trace[b].key].exclusive
        /\ inner[trace[b].key].shared_count = 0
        /\ trace[c].op = "release" /\ trace[c].mode = Exclusive /\ ~trace[c].free
        /\ trace[c].key \in DOMAIN inner /\ inner[trace[c].key].shared_count = 1
        /\ ~inner[trace[c].key].exclusive


\* the step is one of invocation i
StepOf(i) == pc'[i] # pc[i] \/ put_idx'[i] # put_idx[i]

\* no step of a Transfer, from its pre-check to its return, changes the lock
\* table
TransferLeavesLockTable ==
    \A i \in Tasks :
        (StepOf(i) /\ req'[i].kind = "Transfer") => inner' = inner

\* no Transfer is rejected for lock contention, and a Transfer that passed
\* pre-check was not asked to lock
TransferNeverContends ==
    \A i \in Tasks :
        (pc[i] # "idle" /\ req[i].kind = "Transfer")
        => /\ pc[i] # "lock"
           /\ result[i] # LockContention
           /\ result[i] \notin PreCheckErrors
                => ~report[i].requires_shared_lock /\ ~report[i].is_move_call

\* C33: a Transfer never touches the lock table: it neither acquires nor
\* releases a lock and is never rejected for lock contention
C33_TransferTakesNoLock ==
    /\ []TransferNeverContends
    /\ [][TransferLeavesLockTable]_vars

\* a Call took the exclusive lock and has not executed yet, and a Transfer
\* received after it was executed, sequenced and returned Ok meanwhile
C33_Witness ==
    /\ pc[1] = "execute" /\ req[1].kind = "Call"
    /\ LockTaken
    /\ Returned(2, "Ok") /\ req[2].kind = "Transfer"
    /\ current_seq[2] = 1
    /\ 1 \in DOMAIN checkpoints
    /\ Len(exec_result[2].touched_objects) = 1


\* C34: in the effects of handle_transaction the digest is the request's
\* digest, the events are the execution's logs in order, every touched object
\* is listed under created in order, an object that existed before the
\* transfer included, and the mutated list is empty
C34_EffectsContent ==
    \A i \in Tasks :
        EffectsBuilt(i)
        => /\ effects[i].digest = req[i].digest
           /\ Len(effects[i].events) = Len(exec_result[i].logs)
           /\ \A n \in 1..Len(exec_result[i].logs) :
                 effects[i].events[n] = exec_result[i].logs[n]
           /\ Len(effects[i].created) = Len(exec_result[i].touched_objects)
           /\ \A n \in 1..Len(exec_result[i].touched_objects) :
                 effects[i].created[n] = exec_result[i].touched_objects[n]
           /\ effects[i].mutated = <<>>

\* a transfer of the seeded object returned Ok and its effects list the
\* object, now at version 2 or more, under created; a mint returned Ok too
C34_Witness ==
    \E i, j \in Tasks :
        /\ Returned(i, "Ok") /\ req[i].kind = "Transfer"
        /\ Len(effects[i].created) = 1
        /\ effects[i].created[1].id = SeededObject.id
        /\ effects[i].created[1].version >= 2
        /\ effects[i].mutated = <<>>
        /\ Returned(j, "Ok") /\ IsCall(j, <<"coin">>, <<"mint">>)
        /\ Len(effects[j].created) = 1 /\ Len(effects[j].events) = 3


\* an invocation at the lock step is never made to wait: its acquire can run
NeverWaitsForLock ==
    \A i \in Tasks : pc[i] = "lock" => ENABLED AcquireLock(i)

\* the holder of the sequence mutex, and of the aggregator's, is inside the
\* critical section it locked, so a holder that returns has released it
MutexHeldInsideSection ==
    /\ \A i \in Tasks : seq_mutex = Some(i) => pc[i] \in {"seq_incr", "seq_read"}
    /\ \A i \in Tasks : cp_mutex = Some(i) => pc[i] = "cp_record"
    /\ \A i \in Tasks : pc[i] \in {"seq_incr", "seq_read"} => seq_mutex = Some(i)
    /\ \A i \in Tasks : pc[i] = "cp_record" => cp_mutex = Some(i)

\* C35: under a fair scheduler, with every store call returning, every
\* invocation of handle_transaction eventually returns, Ok or Err: none waits
\* for the object lock and the sequence and aggregator mutexes are always
\* released by their holder
C35_EveryInvocationReturns ==
    /\ [](NeverWaitsForLock /\ MutexHeldInsideSection)
    /\ \A i \in Tasks : (pc[i] # "idle") ~> (pc[i] = "done")

\* one invocation is inside the sequence critical section and the other is
\* waiting for the sequence mutex
C35_Witness ==
    /\ seq_mutex = Some(1)
    /\ pc[1] = "seq_incr"
    /\ pc[2] = "seq_lock"

====
